---------------------------- MODULE Spec2Model ----------------------------
(***************************************************************************)
(* SubtitleManager (src/content/services/SubtitleManager.js): the          *)
(* multi-layer subtitle cache and fetch arbitration of the extension.      *)
(*                                                                         *)
(* JavaScript runs one task at a time, so every action below is one        *)
(* run-to-completion slice of a fetchSubtitles call: from one await to     *)
(* the next.  What the environment answers (IndexedDB, chrome.storage,     *)
(* the remote services) is drawn from small sets.                          *)
(*                                                                         *)
(* JavaScript values: an optional value is a sequence, <<>> for undefined  *)
(* and <<x>> for x; an absent string is "undefined".  Seconds are kept in  *)
(* hundredths so that 0.45 * duration stays an integer.                    *)
(***************************************************************************)
EXTENDS Integers, Sequences, FiniteSets, TLC

VARIABLES
    memoryCache,     \* this.memoryCache: a Map, kept in insertion order
    db,              \* this.db: "null" or "open"
    ctorOpen,        \* the open the constructor started: pending/ok/failed
    store,           \* the IndexedDB object store 'subtitles', by videoId
    idbQueue,        \* IndexedDB transactions created and not yet run
    now,             \* Date.now(), in milliseconds
    calls,           \* the fetchSubtitles calls, by call slot
    stats,           \* this.stats
    currentVideoId,  \* this.currentVideoId
    lastOutcome,     \* what the page received last: a call's video and
                     \* outcome, or "cleared" from clearAllCaches
    started,         \* fetchSubtitles calls made so far
    openCount,       \* indexedDB.open requests made so far
    background       \* the fire-and-forget tasks started, in order

vars == <<memoryCache, db, ctorOpen, store, idbQueue, now, calls, stats,
          currentVideoId, lastOutcome, started, openCount, background>>

---------------------------------------------------------------------------
(* Bounds of the model *)

MaxStarts == 2
MaxCacheStarts == 5
MaxHousekeepingStarts == 2
MaxExpiryStarts == 2
MaxLiveStarts == 1

CallIds == {1, 2}
Videos == {"v1", "v2", "v3", "v4"}
SpecVideos == {"v1", "v2"}
EmptyId == ""
VideoOrder == <<"v1", "v2", "v3", "v4">>
VideoIndex(v) == CHOOSE i \in 1..Len(VideoOrder) : VideoOrder[i] = v

---------------------------------------------------------------------------
(* Program constants *)

CacheExpiry == 7 * 24 * 60 * 60 * 1000
MaxMemoryCacheSize == 3
HalfExpiry == CacheExpiry \div 2

---------------------------------------------------------------------------
(* JavaScript values *)

Undef == "undefined"
Null == "null"
None == <<>>
Some(x) == <<x>>
IsSome(o) == o # <<>>
Val(o) == o[1]
\* JavaScript truthiness of an optional boolean
Truthy(o) == o # <<>> /\ o[1] = TRUE
\* a || b on strings
OrElse(a, b) == IF a = Undef \/ a = "" THEN b ELSE a

\* faulty variant of CeilDiv60: Math.floor
CeilDiv60Floor(w) == IF w = None THEN None ELSE Some(Val(w) \div 60)

\* Math.ceil(w / 60) for w >= 0; NaN (<<>>) when w is undefined
CeilDiv60(w) == IF w = None THEN None ELSE Some((Val(w) + 59) \div 60)


---------------------------------------------------------------------------
(* The volatile cache: this.memoryCache, a Map in insertion order *)

MemKeys(m) == {m[i].videoId : i \in 1..Len(m)}
MemHas(m, v) == \E i \in 1..Len(m) : m[i].videoId = v
MemGet(m, v) == m[CHOOSE i \in 1..Len(m) : m[i].videoId = v]

\* Map.prototype.set: an existing key keeps its place, a new key goes last
MapSet(m, e) ==
    IF MemHas(m, e.videoId)
    THEN [i \in 1..Len(m) |-> IF m[i].videoId = e.videoId THEN e ELSE m[i]]
    ELSE Append(m, e)

\* faulty variant of AddToMemoryCache: nothing is evicted
AddToMemoryCacheUnbounded(m, v, captions, captionData, t, obj) ==
    MapSet(m, [videoId |-> v, captions |-> captions,
               captionData |-> captionData, timestamp |-> t, obj |-> obj])

\* addToMemoryCache: set, then delete keys().next().value when over the bound.
\* The entry holds the captions and captionData it was passed, not copies:
\* obj names the objects (see NoResult)
AddToMemoryCache(m, v, captions, captionData, t, obj) ==
    LET m1 == MapSet(m, [videoId |-> v, captions |-> captions,
                         captionData |-> captionData, timestamp |-> t,
                         obj |-> obj])
    IN IF Len(m1) > MaxMemoryCacheSize THEN Tail(m1) ELSE m1

---------------------------------------------------------------------------
(* Payloads *)

Seg(start, end, text) == [start |-> start, end |-> end, text |-> text]
CaptionData(language, type, source) ==
    [language |-> language, type |-> type, source |-> source]

\* A fetchResult: what fetchFromYtDlp resolves to
FailedFetch ==
    [success |-> FALSE, captions |-> None, content |-> Undef,
     captionData |-> None, errorType |-> Undef, errorMessage |-> Undef,
     isUserSideIssue |-> None, isServerIssue |-> None, warpActive |-> None]

\* What fetchSubtitles resolves to; a field it does not set is undefined.
\* captions and captionData are references: obj names the objects they point
\* to by the number of the call in whose task they were created (parsed from
\* a response, cloned from a row, built by the call), 0 when there are none.
\* Two holders with the same obj hold the same objects.
NoResult ==
    [error |-> Undef, errorWaitMin |-> None, cached |-> None, source |-> Undef,
     captions |-> None, content |-> Undef, captionData |-> None,
     wait_time |-> None, usage |-> Undef, hit_count |-> None,
     success |-> None, errorType |-> Undef, obj |-> 0]

---------------------------------------------------------------------------
(* The persistent cache: IndexedDB object store 'subtitles' *)

Row(v, captions, captionData, t) ==
    [videoId |-> v, captions |-> captions, captionData |-> captionData,
     cachedAt |-> t]

\* faulty variant of Fresh: a row of exactly the expiry age is still served
FreshInclusive(row, t) == t - row.cachedAt <= CacheExpiry

\* getFromIndexedDB, request.onsuccess: the age test of a row read at time t
Fresh(row, t) == t - row.cachedAt < CacheExpiry

\* A transaction waiting in IndexedDB; transactions on one store run in the
\* order they were created
GetReq(c, v) == [op |-> "get", key |-> v, call |-> c, row |-> None]
PutReq(row) == [op |-> "put", key |-> row.videoId, call |-> 0, row |-> Some(row)]
DeleteReq(v) == [op |-> "delete", key |-> v, call |-> 0, row |-> None]
ClearReq == [op |-> "clear", key |-> "", call |-> 0, row |-> None]

\* saveToIndexedDB with this.db set: build cacheData, store.put it.  txOk is
\* whether this.db.transaction() returned (it may throw, which is caught and
\* resolves false)
SaveToIndexedDB(q, v, captions, captionData, t, txOk) ==
    IF txOk THEN Append(q, PutReq(Row(v, captions, captionData, t))) ELSE q

\* deleteFromIndexedDB
DeleteFromIndexedDB(q, handle, v, txOk) ==
    IF handle = "null" \/ ~txOk THEN q ELSE Append(q, DeleteReq(v))

---------------------------------------------------------------------------
(* The remote cache and quota service *)

\* the decision of the three fail-open returns of checkCacheAndLimits
FailOpen ==
    [cached |-> Some(FALSE), allowed |-> Some(TRUE), usage |-> Null,
     subtitles |-> None, hit_count |-> None, reason |-> Undef,
     waitTime |-> None]

TokenOutcomes == {"vocabToken", "tempToken", "storageError"}

\* getAuthToken: the stored token, a temporary one, or null when
\* chrome.storage throws
GetAuthToken(outcome) ==
    CASE outcome = "vocabToken" -> "vocabToken"
      [] outcome = "tempToken" -> "btoa(tempUserId:now)"
      [] OTHER -> Null

WaitTimes == {0, 61, 300}
UsageSample == "burst 1/5 hourly 3/20 daily 10/100"
CaptionsA == <<Seg(0, 200, "server")>>

Subtitles(captions, self, language) ==
    [captions |-> captions, self |-> self, language |-> language]

\* the JSON bodies the remote service is taken to answer with
DecisionBodies ==
    {[FailOpen EXCEPT !.usage = UsageSample]}
    \cup {[FailOpen EXCEPT !.allowed = Some(FALSE), !.reason = "burst_limit",
                          !.waitTime = Some(w), !.usage = UsageSample]
            : w \in WaitTimes}
    \cup {[FailOpen EXCEPT !.allowed = None, !.usage = Undef]}
    \cup {[FailOpen EXCEPT !.cached = Some(TRUE), !.allowed = None,
                          !.subtitles = Some(s), !.hit_count = Some(7),
                          !.usage = UsageSample]
            : s \in {Subtitles(Some(CaptionsA), <<>>, Undef),
                     Subtitles(None, CaptionsA, "en")}}
    \cup {[FailOpen EXCEPT !.cached = Some(TRUE), !.allowed = None,
                          !.usage = UsageSample]}

\* response.json(): an object, the JSON value null, or a SyntaxError
RemoteBodies ==
    {[json |-> "object", value |-> d] : d \in DecisionBodies}
    \cup {[json |-> "null", value |-> FailOpen],
          [json |-> "invalid", value |-> FailOpen]}

RemoteResponses ==
    {[kind |-> "neterr", status |-> 0, body |-> [json |-> "invalid", value |-> FailOpen]]}
    \cup {[kind |-> "http", status |-> s, body |-> b]
            : s \in {200, 429, 500}, b \in RemoteBodies}

ResponseOk(resp) == resp.status >= 200 /\ resp.status <= 299

\* faulty variant of CheckCacheAndLimits: a status other than 2xx and 429 blocks
CheckCacheAndLimitsFailClosed(resp) ==
    IF resp.kind = "neterr" THEN Some(FailOpen)
    ELSE IF ResponseOk(resp) \/ resp.status = 429
         THEN CASE resp.body.json = "object" -> Some(resp.body.value)
                [] resp.body.json = "null" -> None
                [] OTHER -> Some(FailOpen)
         ELSE Some([FailOpen EXCEPT !.allowed = Some(FALSE),
                                    !.waitTime = Some(60)])

\* faulty variant of CheckCacheAndLimits: the body of a 429 is not parsed
CheckCacheAndLimitsDrops429(resp) ==
    IF resp.kind = "neterr" THEN Some(FailOpen)
    ELSE IF ResponseOk(resp)
         THEN CASE resp.body.json = "object" -> Some(resp.body.value)
                [] resp.body.json = "null" -> None
                [] OTHER -> Some(FailOpen)
         ELSE Some(FailOpen)

\* checkCacheAndLimits after the token: the serverResponse it resolves to,
\* <<>> standing for the JSON value null
CheckCacheAndLimits(resp) ==
    IF resp.kind = "neterr" THEN Some(FailOpen)
    ELSE IF ResponseOk(resp) \/ resp.status = 429
         THEN CASE resp.body.json = "object" -> Some(resp.body.value)
                [] resp.body.json = "null" -> None
                [] OTHER -> Some(FailOpen)
         ELSE Some(FailOpen)

\* subtitles.captions || subtitles
SubtitlesCaptions(s) == IF IsSome(s.captions) THEN Val(s.captions) ELSE s.self

---------------------------------------------------------------------------
(* The source fetcher *)

Snippet(start, duration, text) ==
    [start |-> start, duration |-> duration, text |-> text]

\* faulty variant of DurationPercent: the duration is never scaled
DurationPercentUnscaled(isGenerated) == 100

\* durationMultiplier, in percent: 0.45 for auto-generated captions
DurationPercent(isGenerated) == IF isGenerated THEN 45 ELSE 100

UserSideTypes == {"no_transcript", "transcripts_disabled", "video_unavailable"}
ServerSideTypes == {"server_error", "youtube_ip_blocked", "network_error"}

CloudData(success, transcript, errorType, error, warp) ==
    [success |-> success, transcript |-> transcript, language |-> Undef,
     error_type |-> errorType, error |-> error, warp_active |-> warp]

Transcript(snippets, isGenerated) ==
    [snippets |-> snippets, is_generated |-> isGenerated]

SnippetsA == <<Snippet(1000, 400, "hello world"), Snippet(1400, 200, "again")>>

CloudBodies ==
    {CloudData(TRUE, Some(Transcript(SnippetsA, Some(g))), Undef, Undef, None)
        : g \in BOOLEAN}
    \cup {CloudData(TRUE, Some(Transcript(<<>>, None)), Undef, Undef, None),
          CloudData(FALSE, None, "no_transcript", "No transcript", None),
          CloudData(FALSE, None, "youtube_ip_blocked", "Blocked", Some(FALSE)),
          CloudData(FALSE, None, Undef, Undef, None)}

\* a response of a source: fetch() rejected, or a status and a JSON body
\* (<<>>: response.json() throws)
NetErr == [kind |-> "neterr", status |-> 0, data |-> None]
Http(status, data) == [kind |-> "http", status |-> status, data |-> data]

CloudResponses ==
    {NetErr, Http(500, None), Http(200, None)}
    \cup {Http(200, Some(d)) : d \in CloudBodies}

\* faulty variant of FetchFromVocabumin: a missing error_type is not replaced
\* by 'unknown', so that it counts as a server issue
FetchFromVocabuminUntypedIsServer(resp) ==
    IF resp.kind = "neterr" \/ ~ResponseOk(resp) \/ resp.data = None
    THEN FailedFetch
    ELSE
      LET data == Val(resp.data)
          snippets == IF IsSome(data.transcript)
                      THEN Val(data.transcript).snippets ELSE <<>>
          isGenerated == IsSome(data.transcript)
                         /\ Truthy(Val(data.transcript).is_generated)
      IN IF data.success /\ Len(snippets) > 0
         THEN [FailedFetch EXCEPT
                 !.success = TRUE,
                 !.captions = Some([i \in 1..Len(snippets) |->
                     Seg(snippets[i].start,
                         snippets[i].start
                           + (snippets[i].duration * DurationPercent(isGenerated)) \div 100,
                         snippets[i].text)]),
                 !.captionData = Some(CaptionData(
                     OrElse(data.language, "en"),
                     IF isGenerated THEN "auto-generated" ELSE "manual",
                     "vocabumin"))]
         ELSE
           LET errorType == data.error_type
           IN [FailedFetch EXCEPT
                 !.errorType = errorType,
                 !.errorMessage = OrElse(data.error, "Unknown error"),
                 !.isUserSideIssue = Some(errorType \in UserSideTypes),
                 !.isServerIssue = Some(errorType \in ServerSideTypes
                                        \/ errorType \in {Undef, ""}),
                 !.warpActive = data.warp_active]

\* fetchFromVocabumin, from the response on
FetchFromVocabumin(resp) ==
    IF resp.kind = "neterr" \/ ~ResponseOk(resp) \/ resp.data = None
    THEN FailedFetch
    ELSE
      LET data == Val(resp.data)
          snippets == IF IsSome(data.transcript)
                      THEN Val(data.transcript).snippets ELSE <<>>
          isGenerated == IsSome(data.transcript)
                         /\ Truthy(Val(data.transcript).is_generated)
      IN IF data.success /\ Len(snippets) > 0
         THEN [FailedFetch EXCEPT
                 !.success = TRUE,
                 !.captions = Some([i \in 1..Len(snippets) |->
                     Seg(snippets[i].start,
                         snippets[i].start
                           + (snippets[i].duration * DurationPercent(isGenerated)) \div 100,
                         snippets[i].text)]),
                 !.captionData = Some(CaptionData(
                     OrElse(data.language, "en"),
                     IF isGenerated THEN "auto-generated" ELSE "manual",
                     "vocabumin"))]
         ELSE
           LET errorType == OrElse(data.error_type, "unknown")
           IN [FailedFetch EXCEPT
                 !.errorType = errorType,
                 !.errorMessage = OrElse(data.error, "Unknown error"),
                 !.isUserSideIssue = Some(errorType \in UserSideTypes),
                 !.isServerIssue = Some(errorType \in ServerSideTypes
                                        \/ errorType \in {Undef, ""}),
                 !.warpActive = data.warp_active]

CaptionsL == <<Seg(0, 300, "local")>>

LocalData(success, groups, content, type) ==
    [success |-> success, caption_groups |-> groups, content |-> content,
     language |-> "en", subtitle_type |-> type]

Json3Responses ==
    {NetErr, Http(500, None),
     Http(200, Some(LocalData(TRUE, Some(CaptionsL), Undef, "auto-generated"))),
     Http(200, Some(LocalData(FALSE, None, Undef, Undef)))}

VttResponses ==
    {NetErr, Http(500, None),
     Http(200, Some(LocalData(TRUE, None, "WEBVTT 00:00 local", Undef))),
     Http(200, Some(LocalData(FALSE, None, Undef, Undef)))}

\* whether a local-server attempt succeeded: response.ok and data.success
LocalSuccess(resp) ==
    resp.kind = "http" /\ ResponseOk(resp) /\ IsSome(resp.data)
    /\ Val(resp.data).success

\* the result fetchFromYtDlp returns after a successful JSON3 attempt
Json3Result(resp) ==
    [FailedFetch EXCEPT
       !.success = TRUE,
       !.captions = Val(resp.data).caption_groups,
       !.captionData = Some(CaptionData(Val(resp.data).language,
                                        Val(resp.data).subtitle_type,
                                        "local-ytdlp"))]

\* the result fetchFromYtDlp returns after a successful plain-text attempt
VttResult(resp) ==
    [FailedFetch EXCEPT
       !.success = TRUE,
       !.content = Val(resp.data).content,
       !.captionData = Some(CaptionData(Val(resp.data).language, "vtt",
                                        "local-ytdlp"))]

PrefOutcomes == {Undef, "cloud", "local", "storageError"}
\* subtitleServer || 'cloud'
PreferredServer(pref) == OrElse(pref, "cloud")

---------------------------------------------------------------------------
(* fetchSubtitles: the orchestrator.  A step works on a context: the call's
   record and the shared state the call may change. *)

\* pc: where the call waits; log: the collaborators it has invoked, in order.
\* What it observed is kept for the properties: memAtStart (videoId was a key
\* of the Map at entry), diskRead (what came of getFromIndexedDB: "hit" with
\* the row in diskRow, "miss", or "openFailed"), checkFailed (the remote
\* check could not be performed), decision (serverResponse), saveIssued
\* (store.put was issued), fetchResult, pref (the preference read).  seq is
\* the number of the call, counted from the first.
IdleCall ==
    [pc |-> "idle", videoId |-> EmptyId, memAtStart |-> FALSE, log |-> <<>>,
     diskRead |-> "none", diskRow |-> None, checkFailed |-> FALSE,
     decision |-> None, saveIssued |-> FALSE, fetchResult |-> None,
     pref |-> Undef, result |-> None, seq |-> 0]

Ctx(c) ==
    [call |-> calls[c], mem |-> memoryCache, q |-> idbQueue, stats |-> stats,
     bg |-> background]

Logged(x, evs) == [x EXCEPT !.call.log = @ \o evs]

\* return result
Return(x, result) == [x EXCEPT !.call.pc = "done", !.call.result = Some(result)]

\* an exception leaves fetchSubtitles: the promise it returned rejects
Reject(x) == [x EXCEPT !.call.pc = "rejected"]

\* faulty variant of MemoryHit: the entry read becomes the newest (access
\* order)
MemoryHitRefreshes(x) ==
    LET cached == MemGet(x.mem, x.call.videoId)
        others == SelectSeq(x.mem, LAMBDA e : e.videoId # x.call.videoId)
    IN Return([x EXCEPT !.stats.memoryHits = @ + 1,
                        !.mem = Append(others, cached)],
              [NoResult EXCEPT !.captions = cached.captions,
                               !.captionData = cached.captionData,
                               !.source = "memory",
                               !.obj = cached.obj,
                               !.cached = Some(TRUE)])

\* faulty variant of MemoryHit: the hit is logged to the usage log
MemoryHitLogsFetch(x) ==
    LET cached == MemGet(x.mem, x.call.videoId)
    IN Return(Logged([x EXCEPT !.stats.memoryHits = @ + 1], <<"logFetch">>),
              [NoResult EXCEPT !.captions = cached.captions,
                               !.captionData = cached.captionData,
                               !.source = "memory",
                               !.obj = cached.obj,
                               !.cached = Some(TRUE)])

\* STEP 1, memory hit
MemoryHit(x) ==
    LET cached == MemGet(x.mem, x.call.videoId)
    IN Return([x EXCEPT !.stats.memoryHits = @ + 1],
              [NoResult EXCEPT !.captions = cached.captions,
                               !.captionData = cached.captionData,
                               !.source = "memory",
                               !.obj = cached.obj,
                               !.cached = Some(TRUE)])

\* faulty variant of LocalHit: the row is returned and not promoted
LocalHitNoPromotion(x, row, t) ==
    Return([x EXCEPT !.stats.indexedDBHits = @ + 1],
           [NoResult EXCEPT !.captions = row.captions,
                            !.captionData = row.captionData,
                            !.source = "local_cache",
                            !.obj = x.call.seq,
                            !.cached = Some(TRUE)])

\* faulty variant of LocalHit: the row read is written again with a new
\* cachedAt
LocalHitRewritesRow(x, row, t) ==
    Return(Logged([x EXCEPT !.stats.indexedDBHits = @ + 1,
                            !.mem = AddToMemoryCache(@, x.call.videoId,
                                        row.captions, row.captionData, t, x.call.seq),
                            !.q = SaveToIndexedDB(@, x.call.videoId,
                                        row.captions, row.captionData, t, TRUE)],
                  <<"addToMemoryCache">>),
           [NoResult EXCEPT !.captions = row.captions,
                            !.captionData = row.captionData,
                            !.source = "local_cache",
                            !.obj = x.call.seq,
                            !.cached = Some(TRUE)])

\* STEP 2, IndexedDB hit with the row read
LocalHit(x, row, t) ==
    Return(Logged([x EXCEPT !.stats.indexedDBHits = @ + 1,
                            !.mem = AddToMemoryCache(@, x.call.videoId,
                                        row.captions, row.captionData, t, x.call.seq)],
                  <<"addToMemoryCache">>),
           [NoResult EXCEPT !.captions = row.captions,
                            !.captionData = row.captionData,
                            !.source = "local_cache",
                            !.obj = x.call.seq,
                            !.cached = Some(TRUE)])

\* faulty variant of LocalMiss: the source is fetched without the remote check
LocalMissSkipsCheck(x) ==
    Logged([x EXCEPT !.stats.misses = @ + 1, !.call.pc = "await_pref"],
           <<"fetchFromYtDlp">>)

\* STEP 3 begins: checkCacheAndLimits is called and awaits getAuthToken
LocalMiss(x) ==
    Logged([x EXCEPT !.call.pc = "await_token"], <<"checkCacheAndLimits">>)

\* A background task: the call to storeInServerCache or to logFetch with its
\* arguments, the fetchSubtitles call that made it, and how far it got:
\* "pending", or how it ended
StoreTask(v, seq) ==
    [task |-> "storeInServerCache", videoId |-> v, success |-> TRUE,
     source |-> Undef, fromCache |-> FALSE, call |-> seq, state |-> "pending"]
LogTask(v, success, source, fromCache, seq) ==
    [task |-> "logFetch", videoId |-> v, success |-> success,
     source |-> source, fromCache |-> fromCache, call |-> seq,
     state |-> "pending"]

\* faulty variant of WriteBack: the memory cache is not written
WriteBackNoMemory(x, fr, t, txOk) ==
    LET v == x.call.videoId
        fetchSource == IF IsSome(fr.captionData)
                       THEN OrElse(Val(fr.captionData).source, "unknown")
                       ELSE "unknown"
    IN Return(Logged([x EXCEPT
                        !.q = SaveToIndexedDB(@, v, fr.captions,
                                              fr.captionData, t, txOk),
                        !.call.saveIssued = txOk,
                        !.bg = @ \o <<StoreTask(v, x.call.seq),
                                      LogTask(v, TRUE, fetchSource, FALSE,
                                              x.call.seq)>>],
                     <<"saveToIndexedDB", "storeInServerCache", "logFetch">>),
              [NoResult EXCEPT !.success = Some(fr.success),
                               !.captions = fr.captions,
                               !.content = fr.content,
                               !.captionData = fr.captionData,
                               !.errorType = fr.errorType,
                               !.source = fetchSource,
                               !.obj = x.call.seq,
                               !.cached = Some(FALSE)])

\* faulty variant of WriteBack: the call waits for the two background tasks
\* before it returns
WriteBackAwaitsBackground(x, fr, t, txOk) ==
    LET v == x.call.videoId
        fetchSource == IF IsSome(fr.captionData)
                       THEN OrElse(Val(fr.captionData).source, "unknown")
                       ELSE "unknown"
    IN Logged([x EXCEPT
                 !.mem = AddToMemoryCache(@, v, fr.captions,
                                          fr.captionData, t, x.call.seq),
                 !.q = SaveToIndexedDB(@, v, fr.captions,
                                       fr.captionData, t, txOk),
                 !.call.saveIssued = txOk,
                 !.call.pc = "await_background",
                 !.bg = @ \o <<StoreTask(v, x.call.seq),
                               LogTask(v, TRUE, fetchSource, FALSE,
                                       x.call.seq)>>],
              <<"addToMemoryCache", "saveToIndexedDB",
                "storeInServerCache", "logFetch">>)

\* faulty variant of WriteBack: the fresh result is marked as cached
WriteBackMarksCached(x, fr, t, txOk) ==
    LET v == x.call.videoId
        fetchSource == IF IsSome(fr.captionData)
                       THEN OrElse(Val(fr.captionData).source, "unknown")
                       ELSE "unknown"
    IN Return(Logged([x EXCEPT
                        !.mem = AddToMemoryCache(@, v, fr.captions,
                                                 fr.captionData, t, x.call.seq),
                        !.q = SaveToIndexedDB(@, v, fr.captions,
                                              fr.captionData, t, txOk),
                        !.call.saveIssued = txOk,
                        !.bg = @ \o <<StoreTask(v, x.call.seq),
                                      LogTask(v, TRUE, fetchSource, FALSE,
                                              x.call.seq)>>],
                     <<"addToMemoryCache", "saveToIndexedDB",
                       "storeInServerCache", "logFetch">>),
              [NoResult EXCEPT !.success = Some(fr.success),
                               !.captions = fr.captions,
                               !.content = fr.content,
                               !.captionData = fr.captionData,
                               !.errorType = fr.errorType,
                               !.source = fetchSource,
                               !.obj = x.call.seq,
                               !.cached = Some(TRUE)])

\* faulty variant of WriteBack: the caches are written under this.currentVideoId
WriteBackUnderCurrentVideo(x, fr, t, txOk) ==
    LET v == currentVideoId
        fetchSource == IF IsSome(fr.captionData)
                       THEN OrElse(Val(fr.captionData).source, "unknown")
                       ELSE "unknown"
    IN Return(Logged([x EXCEPT
                        !.mem = AddToMemoryCache(@, v, fr.captions,
                                                 fr.captionData, t, x.call.seq),
                        !.q = SaveToIndexedDB(@, v, fr.captions,
                                              fr.captionData, t, txOk),
                        !.call.saveIssued = txOk,
                        !.bg = @ \o <<StoreTask(v, x.call.seq),
                                      LogTask(v, TRUE, fetchSource, FALSE,
                                              x.call.seq)>>],
                     <<"addToMemoryCache", "saveToIndexedDB",
                       "storeInServerCache", "logFetch">>),
              [NoResult EXCEPT !.success = Some(fr.success),
                               !.captions = fr.captions,
                               !.content = fr.content,
                               !.captionData = fr.captionData,
                               !.errorType = fr.errorType,
                               !.source = fetchSource,
                               !.obj = x.call.seq,
                               !.cached = Some(FALSE)])

\* STEP 6: store the fresh fetch, start the background tasks, return.  The
\* two tasks (storeInServerCache, logFetch) are not awaited and touch no
\* state of the SubtitleManager: the call's log records that they started
WriteBack(x, fr, t, txOk) ==
    LET v == x.call.videoId
        fetchSource == IF IsSome(fr.captionData)
                       THEN OrElse(Val(fr.captionData).source, "unknown")
                       ELSE "unknown"
    IN Return(Logged([x EXCEPT
                        !.mem = AddToMemoryCache(@, v, fr.captions,
                                                 fr.captionData, t, x.call.seq),
                        !.q = SaveToIndexedDB(@, v, fr.captions,
                                              fr.captionData, t, txOk),
                        !.call.saveIssued = txOk,
                        !.bg = @ \o <<StoreTask(v, x.call.seq),
                                      LogTask(v, TRUE, fetchSource, FALSE,
                                              x.call.seq)>>],
                     <<"addToMemoryCache", "saveToIndexedDB",
                       "storeInServerCache", "logFetch">>),
              [NoResult EXCEPT !.success = Some(fr.success),
                               !.captions = fr.captions,
                               !.content = fr.content,
                               !.captionData = fr.captionData,
                               !.errorType = fr.errorType,
                               !.source = fetchSource,
                               !.obj = x.call.seq,
                               !.cached = Some(FALSE)])

\* faulty variant of HandleFetchResult: a failed result is written back too
HandleFetchResultStoresFailure(x, fr, t, txOk) ==
    WriteBack([x EXCEPT !.call.fetchResult = Some(fr)], fr, t, txOk)

\* faulty variant of HandleFetchResult: a failed source fetch is reported to
\* the usage log
HandleFetchResultLogsFailure(x, fr, t, txOk) ==
    LET x1 == [x EXCEPT !.call.fetchResult = Some(fr)]
    IN IF ~fr.success
       THEN Return(Logged([x1 EXCEPT !.bg = Append(@,
                              LogTask(x.call.videoId, FALSE, "unknown", FALSE,
                                      x.call.seq))],
                          <<"logFetch">>),
                   [NoResult EXCEPT !.error = "Failed to fetch subtitles",
                                    !.cached = Some(FALSE)])
       ELSE WriteBack(x1, fr, t, txOk)

\* STEP 5, after fetchFromYtDlp resolved to fr
HandleFetchResult(x, fr, t, txOk) ==
    LET x1 == [x EXCEPT !.call.fetchResult = Some(fr)]
    IN IF ~fr.success
       THEN Return(x1, [NoResult EXCEPT !.error = "Failed to fetch subtitles",
                                        !.cached = Some(FALSE)])
       ELSE WriteBack(x1, fr, t, txOk)

\* faulty variant of ServerHit: the persistent tier is not written
ServerHitNoSave(x, d, t, txOk) ==
    LET x1 == [x EXCEPT !.stats.serverHits = @ + 1]
    IN IF d.subtitles = None
       THEN Reject(x1)
       ELSE
         LET subtitles == Val(d.subtitles)
             captionData == Some(CaptionData(OrElse(subtitles.language, "en"),
                                             Undef, "server_cache"))
             captions == Some(SubtitlesCaptions(subtitles))
         IN Return(Logged([x1 EXCEPT
                             !.mem = AddToMemoryCache(@, x.call.videoId,
                                                      captions, captionData, t, x.call.seq)],
                          <<"addToMemoryCache">>),
                   [NoResult EXCEPT !.captions = captions,
                                    !.captionData = captionData,
                                    !.source = "server_cache",
                                    !.obj = x.call.seq,
                                    !.cached = Some(TRUE),
                                    !.hit_count = d.hit_count])

\* server cache hit
ServerHit(x, d, t, txOk) ==
    LET x1 == [x EXCEPT !.stats.serverHits = @ + 1]
    IN IF d.subtitles = None
       THEN Reject(x1)      \* TypeError: subtitles.language of undefined
       ELSE
         LET subtitles == Val(d.subtitles)
             captionData == Some(CaptionData(OrElse(subtitles.language, "en"),
                                             Undef, "server_cache"))
             captions == Some(SubtitlesCaptions(subtitles))
         IN Return(Logged([x1 EXCEPT
                             !.mem = AddToMemoryCache(@, x.call.videoId,
                                                      captions, captionData, t, x.call.seq),
                             !.q = SaveToIndexedDB(@, x.call.videoId, captions,
                                                   captionData, t, txOk),
                             !.call.saveIssued = txOk],
                          <<"addToMemoryCache", "saveToIndexedDB">>),
                   [NoResult EXCEPT !.captions = captions,
                                    !.captionData = captionData,
                                    !.source = "server_cache",
                                    !.obj = x.call.seq,
                                    !.cached = Some(TRUE),
                                    !.hit_count = d.hit_count])

\* faulty variant of RateLimited: after a denial the remote check is made
\* again
RateLimitedRetries(x, d) ==
    Logged([x EXCEPT !.call.pc = "await_token"], <<"checkCacheAndLimits">>)

\* faulty variant of RateLimited: the denial is remembered in the memory
\* cache
RateLimitedCachesDenial(x, d) ==
    Return([x EXCEPT !.mem = AddToMemoryCache(@, x.call.videoId, None, None,
                                              0, x.call.seq)],
           [NoResult EXCEPT !.error = "Rate limited",
                            !.errorWaitMin = CeilDiv60(d.waitTime),
                            !.wait_time = d.waitTime,
                            !.usage = d.usage])

\* STEP 4, rate limited
RateLimited(x, d) ==
    Return(x, [NoResult EXCEPT !.error = "Rate limited",
                               !.errorWaitMin = CeilDiv60(d.waitTime),
                               !.wait_time = d.waitTime,
                               !.usage = d.usage])

\* faulty variant of HandleServerResponse: the allowed flag is not tested
HandleServerResponseNoGate(x, sr, t, txOk) ==
    LET x1 == [x EXCEPT !.call.decision = sr]
    IN IF sr = None
       THEN Reject(x1)
       ELSE IF Truthy(Val(sr).cached) THEN ServerHit(x1, Val(sr), t, txOk)
       ELSE Logged([x1 EXCEPT !.stats.misses = @ + 1, !.call.pc = "await_pref"],
                   <<"fetchFromYtDlp">>)

\* STEP 3 to 5, after checkCacheAndLimits resolved to serverResponse sr
HandleServerResponse(x, sr, t, txOk) ==
    LET x1 == [x EXCEPT !.call.decision = sr]
    IN IF sr = None
       THEN Reject(x1)      \* TypeError: serverResponse.cached of null
       ELSE IF Truthy(Val(sr).cached) THEN ServerHit(x1, Val(sr), t, txOk)
       ELSE IF ~Truthy(Val(sr).allowed) THEN RateLimited(x1, Val(sr))
       ELSE Logged([x1 EXCEPT !.stats.misses = @ + 1, !.call.pc = "await_pref"],
                   <<"fetchFromYtDlp">>)

\* getFromIndexedDB with this.db set: create the transaction and the request
\* (a throw of this.db.transaction is caught and resolves null)
BeginGet(x, c, txOk) ==
    IF txOk
    THEN [x EXCEPT !.q = Append(@, GetReq(c, x.call.videoId)),
                   !.call.pc = "await_idb"]
    ELSE LocalMiss([x EXCEPT !.call.diskRead = "miss"])

\* CaptionService.fetchFromYtDlpServer, the error branch: the minutes of the
\* "Please wait" overlay, <<>> when the generic overlay is shown instead
RateLimitOverlayMinutes(result) ==
    IF IsSome(result.wait_time) /\ Val(result.wait_time) # 0
    THEN CeilDiv60(result.wait_time)
    ELSE None

\* what a context leaves behind
Commit(c, x) ==
    /\ calls' = [calls EXCEPT ![c] = x.call]
    /\ memoryCache' = x.mem
    /\ idbQueue' = x.q
    /\ stats' = x.stats
    /\ background' = x.bg

---------------------------------------------------------------------------
(* Initial state: a SubtitleManager just constructed.  The object store
   outlives the page, so it holds a row of an earlier session: v1, cached
   half an expiry window before StartTime.  The page is loaded at StartTime
   (the row is 3.5 days old) or half a window later (it is exactly 7 days
   old).  A page's calls take seconds, so the clock stands still while the
   page lives. *)

StartTime == CacheExpiry
CaptionsB == <<Seg(0, 100, "stored")>>
StoredData == Some(CaptionData("en", "manual", "vocabumin"))
NoRows == [v \in Videos |-> None]

\* v1 was cached half an expiry window before StartTime; nothing else is stored
InitStore ==
    [NoRows EXCEPT !["v1"] =
        Some(Row("v1", Some(CaptionsB), StoredData, StartTime - HalfExpiry))]

Init ==
    /\ memoryCache = <<>>
    /\ db = "null"
    /\ ctorOpen = "pending"
    /\ store = InitStore
    /\ idbQueue = <<>>
    /\ now \in {StartTime, StartTime + HalfExpiry}
    /\ calls = [c \in CallIds |-> IdleCall]
    /\ stats = [memoryHits |-> 0, indexedDBHits |-> 0, serverHits |-> 0,
                misses |-> 0]
    /\ currentVideoId = Null
    /\ lastOutcome = [videoId |-> EmptyId, kind |-> "none"]
    /\ started = 0
    /\ openCount = 1
    /\ background = <<>>

---------------------------------------------------------------------------
(* Actions *)

Free(c) == calls[c].pc = "idle"

\* a call has settled and its caller has not run yet: the caller's
\* continuation is a microtask, which runs before any other task
Settled == \E c \in CallIds : calls[c].pc \in {"done", "rejected"}

\* the constructor's indexedDB.open settles
CtorOpenDone(ok) ==
    /\ ~Settled
    /\ ctorOpen = "pending"
    /\ ctorOpen' = IF ok THEN "ok" ELSE "failed"
    /\ db' = IF ok THEN "open" ELSE db
    /\ UNCHANGED <<memoryCache, store, idbQueue, now, calls, stats,
                   currentVideoId, lastOutcome, started, openCount, background>>

\* faulty variant of FetchStart: this.currentVideoId is assigned before the
\* videoId is tested
FetchStartSetsCurrentFirst(c, v, txOk) ==
    /\ ~Settled
    /\ Free(c)
    /\ \A c2 \in CallIds : Free(c2) => c <= c2
    /\ started' = started + 1
    /\ LET call0 == [IdleCall EXCEPT !.videoId = v, !.pc = "start",
                                     !.seq = started + 1,
                                     !.memAtStart = (v \in MemKeys(memoryCache))]
           x == [Ctx(c) EXCEPT !.call = call0]
           x1 == Logged(x, <<"getFromIndexedDB">>)
       IN IF v = EmptyId
          THEN /\ Commit(c, Return(x, [NoResult EXCEPT
                                         !.error = "No video ID provided",
                                         !.cached = Some(FALSE)]))
               /\ currentVideoId' = v
               /\ UNCHANGED openCount
          ELSE /\ currentVideoId' = v
               /\ IF MemHas(memoryCache, v)
                  THEN /\ Commit(c, MemoryHit(x))
                       /\ UNCHANGED openCount
                  ELSE IF db = "null"
                  THEN /\ Commit(c, [x1 EXCEPT !.call.pc = "await_open"])
                       /\ openCount' = openCount + 1
                  ELSE /\ Commit(c, BeginGet(x1, c, txOk))
                       /\ UNCHANGED openCount
    /\ UNCHANGED <<db, ctorOpen, store, now, lastOutcome>>

\* fetchSubtitles(v) is called and runs to its first await
FetchStart(c, v, txOk) ==
    /\ ~Settled
    /\ Free(c)
    /\ \A c2 \in CallIds : Free(c2) => c <= c2
    /\ started' = started + 1
    /\ LET call0 == [IdleCall EXCEPT !.videoId = v, !.pc = "start",
                                     !.seq = started + 1,
                                     !.memAtStart = (v \in MemKeys(memoryCache))]
           x == [Ctx(c) EXCEPT !.call = call0]
           x1 == Logged(x, <<"getFromIndexedDB">>)
       IN IF v = EmptyId
          THEN /\ Commit(c, Return(x, [NoResult EXCEPT
                                         !.error = "No video ID provided",
                                         !.cached = Some(FALSE)]))
               /\ UNCHANGED <<currentVideoId, openCount>>
          ELSE /\ currentVideoId' = v
               /\ IF MemHas(memoryCache, v)
                  THEN /\ Commit(c, MemoryHit(x))
                       /\ UNCHANGED openCount
                  ELSE IF db = "null"
                  THEN /\ Commit(c, [x1 EXCEPT !.call.pc = "await_open"])
                       /\ openCount' = openCount + 1
                  ELSE /\ Commit(c, BeginGet(x1, c, txOk))
                       /\ UNCHANGED openCount
    /\ UNCHANGED <<db, ctorOpen, store, now, lastOutcome>>

\* the indexedDB.open that getFromIndexedDB awaits settles; open requests on
\* one database are served in order, so the constructor's has settled
OpenDone(c, ok, txOk) ==
    /\ ~Settled
    /\ calls[c].pc = "await_open"
    /\ ctorOpen # "pending"
    /\ IF ok
       THEN /\ db' = "open"
            /\ Commit(c, BeginGet(Ctx(c), c, txOk))
       ELSE /\ db' = db
            /\ Commit(c, Reject([Ctx(c) EXCEPT !.call.diskRead = "openFailed"]))
    /\ UNCHANGED <<ctorOpen, store, now, currentVideoId, lastOutcome, started, openCount>>

\* the store.get of getFromIndexedDB completes and fetchSubtitles goes on
IdbGetDone(c, readOk, txOk) ==
    /\ ~Settled
    /\ calls[c].pc = "await_idb"
    /\ idbQueue # <<>>
    /\ Head(idbQueue).op = "get"
    /\ Head(idbQueue).call = c
    /\ LET data == store[calls[c].videoId]
           unexpired == readOk /\ IsSome(data)
                        /\ now - Val(data).cachedAt < 7 * 24 * 60 * 60 * 1000
           x == [Ctx(c) EXCEPT
                   !.q = Tail(idbQueue),
                   !.call.diskRead = IF unexpired THEN "hit" ELSE "miss",
                   !.call.diskRow = IF unexpired THEN data ELSE None]
       IN IF readOk /\ IsSome(data)
          THEN IF Fresh(Val(data), now)
               THEN Commit(c, LocalHit(x, Val(data), now))
               ELSE Commit(c, LocalMiss([x EXCEPT !.q =
                        DeleteFromIndexedDB(@, db, calls[c].videoId, txOk)]))
          ELSE Commit(c, LocalMiss(x))
    /\ UNCHANGED <<db, ctorOpen, store, now, currentVideoId, lastOutcome, started, openCount>>

\* a store.put, store.delete or store.clear at the head of the queue runs
IdbWriteDone(writeOk) ==
    /\ ~Settled
    /\ idbQueue # <<>>
    /\ Head(idbQueue).op \in {"put", "delete", "clear"}
    /\ idbQueue' = Tail(idbQueue)
    /\ store' = IF ~writeOk THEN store
                ELSE IF Head(idbQueue).op = "clear" THEN NoRows
                ELSE [store EXCEPT ![Head(idbQueue).key] = Head(idbQueue).row]
    /\ UNCHANGED <<memoryCache, db, ctorOpen, now, calls, stats,
                   currentVideoId, lastOutcome, started, openCount, background>>

\* getAuthToken resolves inside checkCacheAndLimits
TokenDone(c, outcome, txOk) ==
    /\ ~Settled
    /\ calls[c].pc = "await_token"
    /\ IF GetAuthToken(outcome) = Null
       THEN Commit(c, HandleServerResponse(
                         [Ctx(c) EXCEPT !.call.checkFailed = TRUE],
                         Some(FailOpen), now, txOk))
       ELSE Commit(c, Logged([Ctx(c) EXCEPT !.call.pc = "await_remote"],
                             <<"fetch-or-cache">>))
    /\ UNCHANGED <<db, ctorOpen, store, now, currentVideoId, lastOutcome, started, openCount>>

\* the request of checkCacheAndLimits settles
RemoteDone(c, resp, txOk) ==
    /\ ~Settled
    /\ calls[c].pc = "await_remote"
    /\ Commit(c, HandleServerResponse(
                    [Ctx(c) EXCEPT !.call.checkFailed =
                        (resp.kind = "neterr"
                         \/ ~(resp.status \in 200..299 \/ resp.status = 429))],
                    CheckCacheAndLimits(resp), now, txOk))
    /\ UNCHANGED <<db, ctorOpen, store, now, currentVideoId, lastOutcome, started, openCount>>

\* fetchFromYtDlp: chrome.storage.sync.get(['subtitleServer']) settles
PrefDone(c, pref) ==
    /\ ~Settled
    /\ calls[c].pc = "await_pref"
    /\ IF pref = "storageError"
       THEN Commit(c, Reject(Ctx(c)))
       ELSE Commit(c, IF PreferredServer(pref) = "cloud"
                      THEN Logged([Ctx(c) EXCEPT !.call.pc = "await_cloud",
                                                 !.call.pref = "cloud"],
                                  <<"transcript">>)
                      ELSE Logged([Ctx(c) EXCEPT !.call.pc = "await_json3",
                                                 !.call.pref = PreferredServer(pref)],
                                  <<"extract-subs-json3">>))
    /\ UNCHANGED <<db, ctorOpen, store, now, currentVideoId, lastOutcome, started, openCount>>

\* faulty variant of CloudDone: a failed cloud fetch falls back to the local
\* server
CloudDoneFallsBack(c, resp, txOk) ==
    /\ ~Settled
    /\ calls[c].pc = "await_cloud"
    /\ IF FetchFromVocabumin(resp).success
       THEN Commit(c, HandleFetchResult(Ctx(c), FetchFromVocabumin(resp), now, txOk))
       ELSE Commit(c, Logged([Ctx(c) EXCEPT !.call.pc = "await_json3"],
                             <<"extract-subs-json3">>))
    /\ UNCHANGED <<db, ctorOpen, store, now, currentVideoId, lastOutcome, started, openCount>>

\* the cloud provider answers
CloudDone(c, resp, txOk) ==
    /\ ~Settled
    /\ calls[c].pc = "await_cloud"
    /\ Commit(c, HandleFetchResult(Ctx(c), FetchFromVocabumin(resp), now, txOk))
    /\ UNCHANGED <<db, ctorOpen, store, now, currentVideoId, lastOutcome, started, openCount>>

\* the local server answers the JSON3 request
Json3Done(c, resp, txOk) ==
    /\ ~Settled
    /\ calls[c].pc = "await_json3"
    /\ IF resp.kind = "neterr" \/ (ResponseOk(resp) /\ resp.data = None)
       THEN Commit(c, HandleFetchResult(Ctx(c), FailedFetch, now, txOk))
       ELSE IF LocalSuccess(resp)
       THEN Commit(c, HandleFetchResult(Ctx(c), Json3Result(resp), now, txOk))
       ELSE Commit(c, Logged([Ctx(c) EXCEPT !.call.pc = "await_vtt"],
                             <<"extract-subs">>))
    /\ UNCHANGED <<db, ctorOpen, store, now, currentVideoId, lastOutcome, started, openCount>>

\* the local server answers the plain-text request
VttDone(c, resp, txOk) ==
    /\ ~Settled
    /\ calls[c].pc = "await_vtt"
    /\ Commit(c, HandleFetchResult(Ctx(c),
                    IF LocalSuccess(resp) THEN VttResult(resp) ELSE FailedFetch,
                    now, txOk))
    /\ UNCHANGED <<db, ctorOpen, store, now, currentVideoId, lastOutcome, started, openCount>>

\* how a settled call ended, as its caller sees it
Outcome(call) ==
    IF call.pc = "rejected" THEN "failed"
    ELSE IF Val(call.result).error = Undef THEN "ok"
    ELSE IF Val(call.result).error = "Rate limited" THEN "denied"
    ELSE "failed"

\* the caller of fetchSubtitles receives the result or the exception
Deliver(c) ==
    /\ calls[c].pc \in {"done", "rejected"}
    /\ calls' = [calls EXCEPT ![c] = IdleCall]
    /\ lastOutcome' = [videoId |-> calls[c].videoId, kind |-> Outcome(calls[c])]
    /\ UNCHANGED <<memoryCache, db, ctorOpen, store, idbQueue, now, stats,
                   currentVideoId, started, openCount, background>>

\* how a background task ends: getAuthToken gave null and the task returned,
\* the request was answered with a 2xx or with another status, or fetch
\* rejected and the catch block swallowed it
BgOutcomes == {"noToken", "ok", "httpError", "neterr"}

\* a background task (storeInServerCache or logFetch) runs to its end; it
\* writes to the console only
BgDone(i, outcome) ==
    /\ ~Settled
    /\ i \in 1..Len(background)
    /\ background[i].state = "pending"
    /\ background' = [background EXCEPT ![i].state = outcome]
    /\ UNCHANGED <<memoryCache, db, ctorOpen, store, idbQueue, now, calls,
                   stats, currentVideoId, lastOutcome, started, openCount>>

\* clearMemoryCache()
ClearMemoryCache ==
    /\ ~Settled
    /\ memoryCache' = <<>>
    /\ UNCHANGED <<db, ctorOpen, store, idbQueue, now, calls, stats,
                   currentVideoId, lastOutcome, started, openCount, background>>

\* clearAllCaches(): the Map is cleared; with this.db set, store.clear() is
\* requested in a new transaction (txOk: this.db.transaction() returned;
\* its throw rejects clearAllCaches) and the await of the request resumes at
\* once; with this.db null the object store is left alone
ClearAllCaches(txOk) ==
    /\ ~Settled
    /\ memoryCache' = <<>>
    /\ IF db = "null"
       THEN /\ idbQueue' = idbQueue
            /\ lastOutcome' = [videoId |-> EmptyId, kind |-> "cleared"]
       ELSE IF txOk
       THEN /\ idbQueue' = Append(idbQueue, ClearReq)
            /\ lastOutcome' = [videoId |-> EmptyId, kind |-> "cleared"]
       ELSE /\ idbQueue' = idbQueue
            /\ lastOutcome' = [videoId |-> EmptyId, kind |-> "failed"]
    /\ UNCHANGED <<db, ctorOpen, store, now, calls, stats, currentVideoId,
                   started, openCount, background>>

Next ==
    \/ \E ok \in BOOLEAN : CtorOpenDone(ok)
    \/ /\ \A c \in CallIds : Free(c)
       /\ started < MaxStarts
       /\ \E c \in CallIds, v \in SpecVideos \cup {EmptyId}, txOk \in BOOLEAN :
             FetchStart(c, v, txOk)
    \/ \E c \in CallIds, ok \in BOOLEAN, txOk \in BOOLEAN : OpenDone(c, ok, txOk)
    \/ \E c \in CallIds, readOk \in BOOLEAN, txOk \in BOOLEAN :
          IdbGetDone(c, readOk, txOk)
    \/ \E writeOk \in BOOLEAN : IdbWriteDone(writeOk)
    \/ \E c \in CallIds, o \in TokenOutcomes, txOk \in BOOLEAN :
          TokenDone(c, o, txOk)
    \/ \E c \in CallIds, resp \in RemoteResponses, txOk \in BOOLEAN :
          RemoteDone(c, resp, txOk)
    \/ \E c \in CallIds, pref \in PrefOutcomes : PrefDone(c, pref)
    \/ \E c \in CallIds, resp \in CloudResponses, txOk \in BOOLEAN :
          CloudDone(c, resp, txOk)
    \/ \E c \in CallIds, resp \in Json3Responses, txOk \in BOOLEAN :
          Json3Done(c, resp, txOk)
    \/ \E c \in CallIds, resp \in VttResponses, txOk \in BOOLEAN :
          VttDone(c, resp, txOk)
    \/ \E c \in CallIds : Deliver(c)

Spec == Init /\ [][Next]_vars

---------------------------------------------------------------------------
(* The volatile cache under overlapping calls.  Calls for four videos
   overlap, the store is open and empty, the persistent tier works, and a
   video is in the remote cache or, when the token is missing, fetched from
   the cloud provider, so that every call ends with a put into
   this.memoryCache or is a memory hit.  Videos are named in the order in
   which they are first requested. *)

InitCache ==
    /\ memoryCache = <<>>
    /\ db = "open"
    /\ ctorOpen = "ok"
    /\ store = NoRows
    /\ idbQueue = <<>>
    /\ now = StartTime
    /\ calls = [c \in CallIds |-> IdleCall]
    /\ stats = [memoryHits |-> 0, indexedDBHits |-> 0, serverHits |-> 0,
                misses |-> 0]
    /\ currentVideoId = Null
    /\ lastOutcome = [videoId |-> EmptyId, kind |-> "none"]
    /\ started = 0
    /\ openCount = 1
    /\ background = <<>>

\* the videos requested so far
Requested ==
    {v \in Videos :
        \/ IsSome(store[v])
        \/ MemHas(memoryCache, v)
        \/ \E c \in CallIds : calls[c].videoId = v
        \/ \E i \in 1..Len(idbQueue) : idbQueue[i].key = v}

\* a video requested before, or the first one that was not
NextVideos ==
    Requested \cup {v \in Videos \ Requested :
                      \A w \in Videos \ Requested : VideoIndex(v) <= VideoIndex(w)}

CacheHitResponses ==
    {r \in RemoteResponses :
        /\ r.kind = "http" /\ r.status = 200 /\ r.body.json = "object"
        /\ r.body.value.cached = Some(TRUE)
        /\ IsSome(r.body.value.subtitles)
        /\ IsSome(Val(r.body.value.subtitles).captions)}

CloudSuccesses ==
    {r \in CloudResponses :
        /\ FetchFromVocabumin(r).success
        /\ Val(FetchFromVocabumin(r).captionData).type = "manual"}

NextCache ==
    \/ /\ started < MaxCacheStarts
       /\ \E c \in CallIds, v \in NextVideos : FetchStart(c, v, TRUE)
    \/ \E c \in CallIds : IdbGetDone(c, TRUE, TRUE)
    \/ IdbWriteDone(TRUE)
    \/ \E c \in CallIds, o \in {"vocabToken", "storageError"} :
          TokenDone(c, o, TRUE)
    \/ \E c \in CallIds, resp \in CacheHitResponses : RemoteDone(c, resp, TRUE)
    \/ \E c \in CallIds : PrefDone(c, "cloud")
    \/ \E c \in CallIds, resp \in CloudSuccesses : CloudDone(c, resp, TRUE)
    \/ \E c \in CallIds : Deliver(c)

SpecCache == InitCache /\ [][NextCache]_vars

---------------------------------------------------------------------------
(* Housekeeping.  One call at a time for the stored video, a working
   persistent tier and no token, so that every double miss goes to the
   cloud provider; the background tasks of a write-back end one way or
   another or stay pending, and between the calls the page clears the
   caches (a clearAllCaches is not called again while its store.clear() is
   queued). *)

NextHousekeeping ==
    \/ \E ok \in BOOLEAN : CtorOpenDone(ok)
    \/ /\ \A c \in CallIds : Free(c)
       /\ started < MaxHousekeepingStarts
       /\ \E c \in CallIds : FetchStart(c, "v1", TRUE)
    \/ \E c \in CallIds, ok \in BOOLEAN : OpenDone(c, ok, TRUE)
    \/ \E c \in CallIds : IdbGetDone(c, TRUE, TRUE)
    \/ IdbWriteDone(TRUE)
    \/ \E c \in CallIds : TokenDone(c, "storageError", TRUE)
    \/ \E c \in CallIds : PrefDone(c, "cloud")
    \/ \E c \in CallIds, resp \in CloudSuccesses \cup {NetErr} :
          CloudDone(c, resp, TRUE)
    \/ \E c \in CallIds : Deliver(c)
    \/ \E i \in 1..Len(background), o \in BgOutcomes : BgDone(i, o)
    \/ /\ \A c \in CallIds : Free(c)
       /\ ClearMemoryCache
    \/ /\ \A c \in CallIds : Free(c)
       /\ \A i \in 1..Len(idbQueue) : idbQueue[i].op # "clear"
       /\ \E txOk \in BOOLEAN : ClearAllCaches(txOk)

SpecHousekeeping == Init /\ [][NextHousekeeping]_vars

---------------------------------------------------------------------------
(* Lazy expiry under overlapping calls.  The page is loaded when the stored
   row of v1 is exactly one expiry window old, the store is open and works,
   there is no token and the cloud provider answers with subtitles; calls
   for v1 and v2 overlap. *)

InitExpiry ==
    /\ memoryCache = <<>>
    /\ db = "open"
    /\ ctorOpen = "ok"
    /\ store = InitStore
    /\ idbQueue = <<>>
    /\ now = StartTime + HalfExpiry
    /\ calls = [c \in CallIds |-> IdleCall]
    /\ stats = [memoryHits |-> 0, indexedDBHits |-> 0, serverHits |-> 0,
                misses |-> 0]
    /\ currentVideoId = Null
    /\ lastOutcome = [videoId |-> EmptyId, kind |-> "none"]
    /\ started = 0
    /\ openCount = 1
    /\ background = <<>>

NextExpiry ==
    \/ /\ started < MaxExpiryStarts
       /\ \E c \in CallIds, v \in SpecVideos : FetchStart(c, v, TRUE)
    \/ \E c \in CallIds : IdbGetDone(c, TRUE, TRUE)
    \/ IdbWriteDone(TRUE)
    \/ \E c \in CallIds : TokenDone(c, "storageError", TRUE)
    \/ \E c \in CallIds : PrefDone(c, "cloud")
    \/ \E c \in CallIds, resp \in CloudSuccesses : CloudDone(c, resp, TRUE)
    \/ \E c \in CallIds : Deliver(c)

SpecExpiry == InitExpiry /\ [][NextExpiry]_vars

---------------------------------------------------------------------------
(* Termination.  The environment of Spec with every awaited operation
   settling: the open of the constructor, the open, read and writes of
   IndexedDB, chrome.storage, the remote check and the source requests each
   complete, one way or another, and a caller takes what its call settled
   with. *)

NextLive ==
    \/ \E ok \in BOOLEAN : CtorOpenDone(ok)
    \/ /\ \A c \in CallIds : Free(c)
       /\ started < MaxLiveStarts
       /\ \E c \in CallIds, v \in SpecVideos \cup {EmptyId}, txOk \in BOOLEAN :
             FetchStart(c, v, txOk)
    \/ \E c \in CallIds, ok \in BOOLEAN, txOk \in BOOLEAN : OpenDone(c, ok, txOk)
    \/ \E c \in CallIds, readOk \in BOOLEAN, txOk \in BOOLEAN :
          IdbGetDone(c, readOk, txOk)
    \/ \E writeOk \in BOOLEAN : IdbWriteDone(writeOk)
    \/ \E c \in CallIds, o \in TokenOutcomes, txOk \in BOOLEAN :
          TokenDone(c, o, txOk)
    \/ \E c \in CallIds, resp \in RemoteResponses, txOk \in BOOLEAN :
          RemoteDone(c, resp, txOk)
    \/ \E c \in CallIds, pref \in PrefOutcomes : PrefDone(c, pref)
    \/ \E c \in CallIds, resp \in CloudResponses, txOk \in BOOLEAN :
          CloudDone(c, resp, txOk)
    \/ \E c \in CallIds, resp \in Json3Responses, txOk \in BOOLEAN :
          Json3Done(c, resp, txOk)
    \/ \E c \in CallIds, resp \in VttResponses, txOk \in BOOLEAN :
          VttDone(c, resp, txOk)
    \/ \E c \in CallIds : Deliver(c)

\* every awaited operation eventually settles
EverySettles ==
    /\ WF_vars(\E ok \in BOOLEAN : CtorOpenDone(ok))
    /\ WF_vars(\E writeOk \in BOOLEAN : IdbWriteDone(writeOk))
    /\ \A c \in CallIds :
         /\ WF_vars(\E ok \in BOOLEAN, txOk \in BOOLEAN : OpenDone(c, ok, txOk))
         /\ WF_vars(\E readOk \in BOOLEAN, txOk \in BOOLEAN :
                       IdbGetDone(c, readOk, txOk))
         /\ WF_vars(\E o \in TokenOutcomes, txOk \in BOOLEAN :
                       TokenDone(c, o, txOk))
         /\ WF_vars(\E resp \in RemoteResponses, txOk \in BOOLEAN :
                       RemoteDone(c, resp, txOk))
         /\ WF_vars(\E pref \in PrefOutcomes : PrefDone(c, pref))
         /\ WF_vars(\E resp \in CloudResponses, txOk \in BOOLEAN :
                       CloudDone(c, resp, txOk))
         /\ WF_vars(\E resp \in Json3Responses, txOk \in BOOLEAN :
                       Json3Done(c, resp, txOk))
         /\ WF_vars(\E resp \in VttResponses, txOk \in BOOLEAN :
                       VttDone(c, resp, txOk))
         /\ WF_vars(Deliver(c))

SpecLive == Init /\ [][NextLive]_vars /\ EverySettles

---------------------------------------------------------------------------
(* Properties *)

Res(c) == Val(calls[c].result)
InLog(c, ev) == \E i \in 1..Len(calls[c].log) : calls[c].log[i] = ev
Count(c, ev) == Cardinality({i \in 1..Len(calls[c].log) : calls[c].log[i] = ev})
Before(c, ev1, ev2) ==
    \E i, j \in 1..Len(calls[c].log) :
        i < j /\ calls[c].log[i] = ev1 /\ calls[c].log[j] = ev2
SourceStages == {"await_pref", "await_cloud", "await_json3", "await_vtt"}
LastPut == idbQueue[Len(idbQueue)]

\* C1: a call that finds its videoId in the memory cache returns at once with
\* source 'memory' and cached = true, and has invoked no collaborator: no
\* IndexedDB read, no checkCacheAndLimits, no source fetch, no
\* storeInServerCache, no logFetch.
C1_MemoryHitReturnsAtOnce ==
    \A c \in CallIds :
        calls[c].memAtStart =>
            /\ calls[c].pc = "done"
            /\ Res(c).error = Undef
            /\ Res(c).source = "memory"
            /\ Res(c).cached = Some(TRUE)
            /\ calls[c].log = <<>>
            /\ \A i \in 1..Len(idbQueue) : idbQueue[i].call # c

C1_Witness ==
    \E c \in CallIds : calls[c].memAtStart /\ calls[c].pc = "done"

C3_FetchOnlyWhenAllowed ==
    \A c \in CallIds :
        (\/ InLog(c, "fetchFromYtDlp") \/ InLog(c, "transcript")
         \/ InLog(c, "extract-subs-json3") \/ InLog(c, "extract-subs")
         \/ calls[c].pc \in SourceStages
         \/ IsSome(calls[c].fetchResult)) =>
            /\ IsSome(calls[c].decision)
            /\ Val(calls[c].decision).cached = Some(FALSE)
            /\ Val(calls[c].decision).allowed = Some(TRUE)
            /\ Before(c, "checkCacheAndLimits", "fetchFromYtDlp")

C3_Witness ==
    \E c \in CallIds :
        /\ InLog(c, "transcript")
        /\ ~calls[c].checkFailed
        /\ Val(calls[c].decision).usage = UsageSample

\* C4: a decision with cached = false and allowed = false ends the call with
\* an error result that carries wait_time = waitTime, the minutes
\* ceil(waitTime / 60) (300 gives 5) and the usage, and the source fetcher
\* is not invoked; the caller's overlay shows the same minutes.
C4_DenialCarriesWait ==
    \A c \in CallIds :
        (/\ IsSome(calls[c].decision)
         /\ Val(calls[c].decision).cached = Some(FALSE)
         /\ Val(calls[c].decision).allowed = Some(FALSE)) =>
            LET d == Val(calls[c].decision)
                w == Val(d.waitTime)
            IN
            /\ calls[c].pc = "done"
            /\ Res(c).error = "Rate limited"
            /\ Res(c).wait_time = d.waitTime
            /\ Res(c).usage = d.usage
            /\ IsSome(Res(c).errorWaitMin)
            /\ 60 * (Val(Res(c).errorWaitMin) - 1) < w
            /\ w <= 60 * Val(Res(c).errorWaitMin)
            /\ (w = 300 => Res(c).errorWaitMin = Some(5))
            /\ (w > 0 => RateLimitOverlayMinutes(Res(c)) = Res(c).errorWaitMin)
            /\ ~InLog(c, "fetchFromYtDlp")
            /\ calls[c].fetchResult = None

C4_Witness ==
    \E c \in CallIds :
        /\ calls[c].pc = "done"
        /\ IsSome(calls[c].decision)
        /\ Val(calls[c].decision).waitTime = Some(300)
        /\ Res(c).errorWaitMin = Some(5)

\* C5: when the remote check cannot be performed (no token, the request
\* fails, a status that is neither 2xx nor 429) the decision is
\* {cached: false, allowed: true, usage: null}, the call goes on to the
\* source fetcher, and it never ends rate limited.
C5_FailOpen ==
    \A c \in CallIds :
        calls[c].checkFailed =>
            /\ IsSome(calls[c].decision)
            /\ Val(calls[c].decision).cached = Some(FALSE)
            /\ Val(calls[c].decision).allowed = Some(TRUE)
            /\ Val(calls[c].decision).usage = Null
            /\ InLog(c, "fetchFromYtDlp")
            /\ (calls[c].pc = "done" => Res(c).error # "Rate limited")

C5_Witness ==
    \E c \in CallIds :
        /\ calls[c].checkFailed
        /\ InLog(c, "fetch-or-cache")
        /\ InLog(c, "transcript")

C7_ServerHitPopulates ==
    \A c \in CallIds :
        (/\ IsSome(calls[c].decision)
         /\ Val(calls[c].decision).cached = Some(TRUE)
         /\ IsSome(Val(calls[c].decision).subtitles)) =>
            LET d == Val(calls[c].decision)
                s == Val(d.subtitles)
                returned == IF IsSome(s.captions) THEN s.captions ELSE Some(s.self)
            IN
            /\ calls[c].pc = "done"
            /\ Res(c).error = Undef
            /\ Res(c).source = "server_cache"
            /\ Res(c).cached = Some(TRUE)
            /\ Res(c).hit_count = d.hit_count
            /\ Res(c).captions = returned
            /\ \E i \in 1..Len(memoryCache) :
                  /\ memoryCache[i].videoId = calls[c].videoId
                  /\ memoryCache[i].captions = returned
            /\ InLog(c, "saveToIndexedDB")
            /\ (calls[c].saveIssued =>
                  /\ idbQueue # <<>>
                  /\ LastPut.op = "put"
                  /\ LastPut.key = calls[c].videoId
                  /\ Val(LastPut.row).captions = returned)
            /\ ~InLog(c, "fetchFromYtDlp")

C7_Witness ==
    \E c \in CallIds :
        /\ calls[c].pc = "done"
        /\ Res(c).source = "server_cache"
        /\ calls[c].saveIssued

\* C8: when a call returns a fresh-fetch success, what it returns (captions,
\* content, captionData) is what the memory cache holds and what
\* saveToIndexedDB was given under the same videoId, and storeInServerCache
\* has been started.
C8_WriteThrough ==
    \A c \in CallIds :
        (/\ calls[c].pc = "done"
         /\ Res(c).error = Undef
         /\ Res(c).cached = Some(FALSE)) =>
            /\ \E i \in 1..Len(memoryCache) :
                  /\ memoryCache[i].videoId = calls[c].videoId
                  /\ memoryCache[i].captions = Res(c).captions
                  /\ memoryCache[i].captionData = Res(c).captionData
            /\ Res(c).content = Undef
            /\ InLog(c, "saveToIndexedDB")
            /\ InLog(c, "storeInServerCache")

\* C9: fetchSubtitles never throws: no call ends with its promise rejected.
C9_NeverRejects ==
    \A c \in CallIds : calls[c].pc # "rejected"

\* C10: when the open of the persistent store fails, getFromIndexedDB yields
\* absent and the call goes on to the remote check.
C10_OpenFailureDegrades ==
    \A c \in CallIds :
        calls[c].diskRead = "openFailed" =>
            /\ calls[c].pc # "rejected"
            /\ InLog(c, "checkCacheAndLimits")

\* C11: a SubtitleManager starts at most one open of the persistent store.
C11_SingleOpen == openCount <= 1

KeySeq(m) == [i \in 1..Len(m) |-> m[i].videoId]
InFlight == {c \in CallIds : ~Free(c)}

\* C12: while fetchSubtitles calls overlap, the memory cache never holds more
\* than 3 entries, holds a videoId once, and every entry is whole: the
\* captions and captionData one call put under that videoId.
C12_BoundedUnderOverlap ==
    /\ Len(memoryCache) <= 3
    /\ \A i, j \in 1..Len(memoryCache) :
          memoryCache[i].videoId = memoryCache[j].videoId => i = j
    /\ \A i \in 1..Len(memoryCache) :
          /\ memoryCache[i].videoId \in Videos
          /\ IsSome(memoryCache[i].captions)
          /\ IsSome(memoryCache[i].captionData)
          /\ memoryCache[i].timestamp = now

\* a call has just put v4 and evicted v1 while another call, which will put
\* too, is in flight
C12_Witness ==
    /\ KeySeq(memoryCache) = <<"v2", "v3", "v4">>
    /\ IsSome(store["v1"])
    /\ \E c, d \in CallIds :
          /\ c # d
          /\ calls[c].pc = "done" /\ calls[c].videoId = "v4" /\ ~calls[c].memAtStart
          /\ calls[d].pc \in {"await_idb", "await_token", "await_remote",
                              "await_pref", "await_cloud"}

C14_IndependentCopies ==
    \A c \in CallIds :
        (calls[c].pc = "done" /\ Res(c).error = Undef) =>
            \A i \in 1..Len(memoryCache) :
                memoryCache[i].videoId = calls[c].videoId
                    => memoryCache[i].obj # Res(c).obj

C16_RoundTrip ==
    \A c \in CallIds :
        (/\ calls[c].pc = "done"
         /\ Res(c).error = Undef
         /\ Res(c).cached = Some(FALSE)
         /\ calls[c].saveIssued) =>
            LET row == Val(LastPut.row) IN
            /\ row.videoId = calls[c].videoId
            /\ row.captions = Res(c).captions
            /\ row.captionData = Res(c).captionData
            /\ (Res(c).content # Undef =>
                  ("content" \in DOMAIN row /\ row.content = Res(c).content))

C20_GeneratedDurationScaled ==
    /\ \A resp \in CloudResponses :
          LET fr == FetchFromVocabumin(resp) IN
          fr.success =>
            LET t == Val(Val(resp.data).transcript)
                g == t.is_generated = Some(TRUE)
                caps == Val(fr.captions)
            IN /\ Len(caps) = Len(t.snippets)
               /\ \A i \in 1..Len(caps) :
                     /\ caps[i].start = t.snippets[i].start
                     /\ caps[i].text = t.snippets[i].text
                     /\ 100 * (caps[i].end - caps[i].start)
                          = t.snippets[i].duration * (IF g THEN 45 ELSE 100)
               /\ Val(fr.captionData).type
                     = (IF g THEN "auto-generated" ELSE "manual")
    /\ \A c \in CallIds :
          (/\ IsSome(calls[c].fetchResult)
           /\ Val(calls[c].fetchResult).success
           /\ Val(Val(calls[c].fetchResult).captionData).source = "vocabumin") =>
             /\ \E resp \in CloudResponses :
                   calls[c].fetchResult = Some(FetchFromVocabumin(resp))
             /\ (Val(Val(calls[c].fetchResult).captionData).type = "auto-generated"
                   => Val(Val(calls[c].fetchResult).captions)[1] = Seg(1000, 1180, "hello world"))
             /\ (Val(Val(calls[c].fetchResult).captionData).type = "manual"
                   => Val(Val(calls[c].fetchResult).captions)[1] = Seg(1000, 1400, "hello world"))

C20_Witness ==
    \E c \in CallIds :
        /\ calls[c].pc = "done"
        /\ Res(c).source = "vocabumin"
        /\ Val(Res(c).captionData).type = "auto-generated"
        /\ Val(Res(c).captions)[1].end = 1180

\* the background tasks started by the call in slot c
TasksOf(c) == {i \in 1..Len(background) : background[i].call = calls[c].seq}

\* C21: the result and the completion of fetchSubtitles do not depend on
\* storeInServerCache and logFetch.  A call whose source fetch succeeded
\* has returned its success result (cached = false, no error) in the very
\* step that started the two tasks, while both are still pending; and the
\* end of a background task, whichever way it ends, changes neither a call
\* nor what a caller received nor the caches.
C21_BackgroundIndependent ==
    /\ [](\A c \in CallIds :
            (IsSome(calls[c].fetchResult) /\ Val(calls[c].fetchResult).success)
            => /\ calls[c].pc = "done"
               /\ Res(c).error = Undef
               /\ Res(c).success = Some(TRUE)
               /\ Res(c).cached = Some(FALSE)
               /\ Res(c).captions = Val(calls[c].fetchResult).captions
               /\ \E i, j \in TasksOf(c) :
                     /\ background[i].task = "storeInServerCache"
                     /\ background[j].task = "logFetch"
                     /\ background[i].state = "pending"
                     /\ background[j].state = "pending")
    /\ [][(\E i \in 1..Len(background), o \in BgOutcomes : BgDone(i, o))
            => UNCHANGED <<calls, lastOutcome, memoryCache, store, idbQueue,
                           stats, db>>]_vars

\* the only call made was a fresh fetch and its caller has the success; one
\* of its tasks failed on the network and the other never completed
C21_Witness ==
    /\ started = 1
    /\ \A c \in CallIds : Free(c)
    /\ lastOutcome = [videoId |-> "v1", kind |-> "ok"]
    /\ \E i, j \in 1..Len(background) :
          /\ background[i].state = "neterr"
          /\ background[j].state = "pending"

\* the step of fetchSubtitles in which a collaborator is invoked: 2 the disk
\* check, 3 the remote check, 5 the source fetch, 6 the stores of a hit or
\* of the write-back
StageOf(ev) ==
    CASE ev = "getFromIndexedDB" -> 2
      [] ev \in {"checkCacheAndLimits", "fetch-or-cache"} -> 3
      [] ev \in {"fetchFromYtDlp", "transcript", "extract-subs-json3",
                 "extract-subs"} -> 5
      [] OTHER -> 6

C23_Status429ParsedAs200 ==
    /\ [](\A b \in RemoteBodies :
            LET r200 == [kind |-> "http", status |-> 200, body |-> b]
                r429 == [kind |-> "http", status |-> 429, body |-> b]
            IN /\ CheckCacheAndLimits(r429) = CheckCacheAndLimits(r200)
               /\ b.json = "object" => CheckCacheAndLimits(r429) = Some(b.value))
    /\ [][\A c \in CallIds, b \in RemoteBodies, txOk \in BOOLEAN :
            RemoteDone(c, [kind |-> "http", status |-> 429, body |-> b], txOk)
            => RemoteDone(c, [kind |-> "http", status |-> 200, body |-> b], txOk)]_vars

\* a call whose remote check was answered (a 429 with a denial body gives
\* this state) ended with the body's denial and its 61 seconds
C23_Witness ==
    \E c \in CallIds :
      /\ calls[c].pc = "done"
      /\ InLog(c, "fetch-or-cache")
      /\ ~calls[c].checkFailed
      /\ calls[c].decision \in
            {CheckCacheAndLimits([kind |-> "http", status |-> 429, body |-> b])
               : b \in {x \in RemoteBodies : x.json = "object"
                                             /\ x.value.waitTime = Some(61)}}
      /\ Res(c).error = "Rate limited"
      /\ Res(c).wait_time = Some(61)

\* the source fetch of the call in slot c ended with the primary (JSON3)
\* attempt's payload
PrimarySucceeded(c) ==
    /\ Val(calls[c].fetchResult).success
    /\ Val(Val(calls[c].fetchResult).captionData).type # "vtt"

\* C24: on the local path /extract-subs-json3 is requested first and once;
\* when the source fetch is over, /extract-subs was requested exactly once
\* if the primary attempt did not succeed and not at all if it did; no third
\* request is made and the cloud provider is not asked.
C24_PrimaryThenSecondaryOnce ==
    \A c \in CallIds :
      InLog(c, "extract-subs-json3")
      => /\ Count(c, "extract-subs-json3") = 1
         /\ Count(c, "extract-subs") <= 1
         /\ ~InLog(c, "transcript")
         /\ InLog(c, "extract-subs")
               => Before(c, "extract-subs-json3", "extract-subs")
         /\ IsSome(calls[c].fetchResult)
               => IF PrimarySucceeded(c)
                  THEN ~InLog(c, "extract-subs")
                  ELSE Count(c, "extract-subs") = 1

\* C25: every successful result of the source fetcher, from the cloud
\* provider and from the local server in either format, has the common
\* shape: a captions array, and captionData with a language, a provider tag
\* and a type that is manual or auto-generated.
C25_CommonPayloadShape ==
    \A c \in CallIds :
      (IsSome(calls[c].fetchResult) /\ Val(calls[c].fetchResult).success)
      => LET fr == Val(calls[c].fetchResult) IN
           /\ IsSome(fr.captions)
           /\ IsSome(fr.captionData)
           /\ Val(fr.captionData).language # Undef
           /\ Val(fr.captionData).source \in {"vocabumin", "local-ytdlp"}
           /\ Val(fr.captionData).type \in {"manual", "auto-generated"}

\* error_type values a failed cloud answer is tried with: the six named
\* ones, another one, an empty one and none
ErrorTypeSamples ==
    UserSideTypes \cup ServerSideTypes \cup {"quota_exceeded", "", Undef}

\* C26: for a failed cloud-provider answer isUserSideIssue is true exactly
\* for error_type no_transcript, transcripts_disabled, video_unavailable and
\* isServerIssue exactly for server_error, youtube_ip_blocked,
\* network_error; the flags are never both true, and for any other or
\* missing error_type both are false.  Checked on every sample answer and
\* on the result of every cloud fetch a call has made.
C26_ErrorClassification ==
    /\ \A et \in ErrorTypeSamples, ok \in BOOLEAN :
         LET r == FetchFromVocabumin(
                    Http(200, Some(CloudData(ok, None, et, "message", None))))
         IN /\ ~r.success
            /\ r.isUserSideIssue = Some(et \in UserSideTypes)
            /\ r.isServerIssue = Some(et \in ServerSideTypes)
            /\ ~(Truthy(r.isUserSideIssue) /\ Truthy(r.isServerIssue))
            /\ et \in {"quota_exceeded", "", Undef}
                  => /\ r.isUserSideIssue = Some(FALSE)
                     /\ r.isServerIssue = Some(FALSE)
    /\ \A c \in CallIds :
         (InLog(c, "transcript") /\ IsSome(calls[c].fetchResult)
            /\ ~Val(calls[c].fetchResult).success)
         => LET r == Val(calls[c].fetchResult) IN
              /\ Truthy(r.isUserSideIssue) <=> r.errorType \in UserSideTypes
              /\ Truthy(r.isServerIssue) <=> r.errorType \in ServerSideTypes
              /\ ~(Truthy(r.isUserSideIssue) /\ Truthy(r.isServerIssue))

\* a cloud fetch failed without an error_type: the type is 'unknown' and
\* neither flag is set
C26_Witness ==
    \E c \in CallIds :
      /\ InLog(c, "transcript")
      /\ IsSome(calls[c].fetchResult)
      /\ Val(calls[c].fetchResult).errorType = "unknown"
      /\ Val(calls[c].fetchResult).isServerIssue = Some(FALSE)
      /\ Val(calls[c].fetchResult).isUserSideIssue = Some(FALSE)

C28_CloudFallsBackToLocal ==
    \A c \in CallIds :
      /\ (calls[c].pref = "cloud" /\ calls[c].pc = "done"
          /\ IsSome(calls[c].fetchResult)
          /\ Res(c).error = "Failed to fetch subtitles")
            => Before(c, "transcript", "extract-subs-json3")
      /\ calls[c].pref = "local" => ~InLog(c, "transcript")

\* C29: after clearAllCaches() has completed, whatever this.db was when it
\* was called, both local tiers are empty: once its store.clear() has run
\* the Map and the object store hold nothing, and the call made next misses
\* the memory cache and the persistent cache.
C29_ClearAllEmptiesBothTiers ==
    lastOutcome.kind = "cleared"
    => /\ ((\A c \in CallIds : Free(c)) /\ idbQueue = <<>>)
             => /\ memoryCache = <<>>
                /\ store = NoRows
       /\ \A c \in CallIds :
             ~Free(c) => /\ ~calls[c].memAtStart
                         /\ calls[c].diskRead # "hit"

\* CaptionService.fetchFromYtDlpServer: the branch taken on a result of
\* fetchSubtitles.  "error" is the generic or rate-limit overlay, "typed"
\* the switch on errorType, "process" the handling of subtitles
CaptionServiceBranch(result) ==
    IF result.error # Undef THEN "error"
    ELSE IF result.success = Some(FALSE) /\ result.errorType \notin {Undef, ""}
    THEN "typed"
    ELSE "process"

\* C30: when the cloud provider reported a typed error, what the caller
\* receives from fetchSubtitles is the structured error fetchFromVocabumin
\* built (success false and its errorType), and CaptionService takes its
\* type-specific branch.
C30_TypedErrorReachesCaller ==
    \A c \in CallIds :
      (calls[c].pc = "done" /\ IsSome(calls[c].fetchResult)
         /\ ~Val(calls[c].fetchResult).success
         /\ Val(calls[c].fetchResult).errorType \in
               UserSideTypes \cup ServerSideTypes)
      => /\ Res(c).success = Some(FALSE)
         /\ Res(c).errorType = Val(calls[c].fetchResult).errorType
         /\ CaptionServiceBranch(Res(c)) = "typed"

CacheSources == {"memory", "local_cache", "server_cache"}

\* C31: every value fetchSubtitles returns is either an error result (an
\* error, no subtitle payload, no source) or a success result (no error)
\* with source and cached, where cached is true exactly for the sources
\* memory, local_cache and server_cache, and a fresh fetch has cached false
\* and as source the tag the source fetcher put into captionData.
C31_ErrorOrSuccessResult ==
    \A c \in CallIds :
      calls[c].pc = "done"
      => IF Res(c).error # Undef
         THEN /\ Res(c).captions = None
              /\ Res(c).content = Undef
              /\ Res(c).captionData = None
              /\ Res(c).source = Undef
              /\ Res(c).cached # Some(TRUE)
         ELSE /\ Res(c).source # Undef
              /\ IsSome(Res(c).cached)
              /\ Res(c).cached = Some(TRUE) <=> Res(c).source \in CacheSources
              /\ Res(c).cached = Some(FALSE)
                    => /\ IsSome(calls[c].fetchResult)
                       /\ Val(calls[c].fetchResult).success
                       /\ Res(c).source =
                            Val(Val(calls[c].fetchResult).captionData).source
                       /\ Res(c).source \in {"vocabumin", "local-ytdlp"}

\* after a failed call, a fresh fetch from the local server returned with
\* cached false and the fetcher's tag
C31_Witness ==
    /\ lastOutcome.kind = "failed"
    /\ \E c \in CallIds :
          /\ calls[c].pc = "done"
          /\ Res(c).error = Undef
          /\ Res(c).cached = Some(FALSE)
          /\ Res(c).source = "local-ytdlp"

\* CaptionService.fetchFromYtDlpServer: skipSegmentation, for the
\* captionData of a result
SkipSegmentation(captionData) ==
    /\ IsSome(captionData)
    /\ \/ Val(captionData).type = "manual"
       \/ Val(captionData).source = "vocabumin"

\* the captionData the source fetcher produces on its three paths
FetchedCaptionData ==
    {FetchFromVocabumin(r).captionData :
        r \in {q \in CloudResponses : FetchFromVocabumin(q).success}}
    \cup {Json3Result(r).captionData :
            r \in {q \in Json3Responses : LocalSuccess(q)}}
    \cup {VttResult(r).captionData :
            r \in {q \in VttResponses : LocalSuccess(q)}}

\* C32: the captionData delivered with a payload served from a cache tier
\* (memory, local_cache, server_cache) is the captionData of a source
\* fetch: it has the type and the provider source the fetcher gave, so that
\* the caller's skip-segmentation decision is the one of the fresh load.
C32_CachedCaptionDataPreserved ==
    \A c \in CallIds :
      (calls[c].pc = "done" /\ Res(c).error = Undef
         /\ Res(c).source \in CacheSources)
      => \E cd \in FetchedCaptionData :
            /\ Val(Res(c).captionData).type = Val(cd).type
            /\ Val(Res(c).captionData).source = Val(cd).source
            /\ SkipSegmentation(Res(c).captionData) = SkipSegmentation(cd)

\* the call in slot c returns in this step a success for v from one of the
\* given sources
ReturnsFrom(c, v, sources) ==
    /\ calls[c].pc # "done"
    /\ calls'[c].pc = "done"
    /\ calls'[c].videoId = v
    /\ Val(calls'[c].result).error = Undef
    /\ Val(calls'[c].result).source \in sources

FetcherSources == {"vocabumin", "local-ytdlp"}

C34_CachedContentPresent ==
    \A c \in CallIds :
      (calls[c].pc = "done" /\ Res(c).error = Undef
         /\ Res(c).source \in {"memory", "local_cache"})
      => \/ IsSome(Res(c).captions)
         \/ Res(c).content # Undef

\* C35: the delete issued by a read that found a stale row never removes a
\* row written afterwards: a row that is in the store and unexpired stays
\* there (nothing is cleared in this specification).
C35_FreshRowStays ==
    [][\A v \in Videos :
          (IsSome(store[v]) /\ Fresh(Val(store[v]), now)) => IsSome(store'[v])]_vars

\* the call in slot c returns in this step with the given source
HitStep(c, source) ==
    /\ calls[c].pc # "done"
    /\ calls'[c].pc = "done"
    /\ Val(calls'[c].result).source = source

QueuedOn(q, v) == Cardinality({i \in 1..Len(q) : q[i].key = v})

\* C37: with calls for different videoIds in flight, a call returns the
\* payload obtained for its own videoId (the objects of its own task, or
\* the Map entry under its videoId) and what it returned is what the Map
\* holds under its videoId; a step of a call adds or changes no Map entry
\* and queues no IndexedDB request under another videoId, whatever
\* this.currentVideoId is.
C37_OwnVideoOnly ==
    /\ [](\A c \in CallIds :
            (calls[c].pc = "done" /\ Res(c).error = Undef)
            => /\ MemHas(memoryCache, calls[c].videoId)
               /\ MemGet(memoryCache, calls[c].videoId).captions = Res(c).captions
               /\ MemGet(memoryCache, calls[c].videoId).captionData
                     = Res(c).captionData
               /\ IF Res(c).source = "memory"
                  THEN MemGet(memoryCache, calls[c].videoId).obj = Res(c).obj
                  ELSE Res(c).obj = calls[c].seq)
    /\ [][\A c \in CallIds :
            (calls'[c] # calls[c] /\ calls'[c].pc # "idle")
            => \A v \in Videos \ {calls'[c].videoId} :
                  /\ MemHas(memoryCache', v)
                        => /\ MemHas(memoryCache, v)
                           /\ MemGet(memoryCache', v) = MemGet(memoryCache, v)
                  /\ QueuedOn(idbQueue', v) <= QueuedOn(idbQueue, v)]_vars

\* a call for v1 has returned its fresh fetch while this.currentVideoId is
\* v2, the video of the other call in flight
C37_Witness ==
    \E c, d \in CallIds :
      /\ calls[c].pc = "done"
      /\ calls[c].videoId = "v1"
      /\ Res(c).cached = Some(FALSE)
      /\ currentVideoId = "v2"
      /\ calls[d].videoId = "v2"
      /\ calls[d].pc \notin {"idle", "done"}
      /\ LastPut.key = "v1"

\* the n-th call is in a slot, having got as far as one of the given places
CallAt(n, pcs) == \E c \in CallIds : calls[c].seq = n /\ calls[c].pc \in pcs

\* with every awaited operation settling, a call that was made settles: it
\* returns a result or its promise is rejected
EventuallySettles ==
    \A n \in 1..MaxLiveStarts :
      (\E c \in CallIds : calls[c].seq = n) ~> CallAt(n, {"done", "rejected"})

\* C38: if every awaited disk and network operation eventually settles,
\* every fetchSubtitles call eventually reaches DONE and returns a result.
C38_EventuallyDone ==
    \A n \in 1..MaxLiveStarts :
      (\E c \in CallIds : calls[c].seq = n) ~> CallAt(n, {"done"})

\* C39: fetchSubtitles with an empty videoId returns {error: 'No video ID
\* provided', cached: false} at once and changes nothing: currentVideoId,
\* the memory cache, the object store and the statistics stay as they are,
\* and no IndexedDB request, open, remote request or background task is
\* started.
C39_EmptyIdChangesNothing ==
    [][\A c \in CallIds, txOk \in BOOLEAN :
          FetchStart(c, EmptyId, txOk)
          => /\ calls'[c].pc = "done"
             /\ Val(calls'[c].result) =
                   [NoResult EXCEPT !.error = "No video ID provided",
                                    !.cached = Some(FALSE)]
             /\ calls'[c].log = <<>>
             /\ UNCHANGED <<currentVideoId, memoryCache, store, idbQueue,
                            stats, db, openCount, background>>]_vars

\* after a call for v1 filled the memory cache, a call with an empty id
\* returned its error; currentVideoId is still v1
C39_Witness ==
    \E c \in CallIds :
      /\ calls[c].pc = "done"
      /\ calls[c].videoId = EmptyId
      /\ Res(c).error = "No video ID provided"
      /\ currentVideoId = "v1"
      /\ MemKeys(memoryCache) = {"v1"}
      /\ stats.misses = 1

=============================================================================
